---- MODULE Spec2Model ----
(***************************************************************************)
(* Model of the Billboard dashboard script (src/main.py).                  *)
(*                                                                         *)
(* The script is re-executed top to bottom on every interaction: it loads  *)
(* the CSV through a process-wide cache, reads the sidebar and tab widgets *)
(* (whose values live in the session), filters the table and derives the   *)
(* summary tables and charts of the four tabs.  An uncaught exception      *)
(* stops the run at the statement that raised it; statements after it are  *)
(* not executed in that run.                                               *)
(*                                                                         *)
(* A table is a record [columns, rows]: the set of column names and the    *)
(* sequence of rows; each row carries the index label it was given when    *)
(* the file was read.  Numbers that the code holds as floats (means and    *)
(* proportions) are kept as exact fractions [nan, num, den].               *)
(***************************************************************************)
EXTENDS Integers, Sequences, FiniteSets

\* ------------------------------------------------------------------ bounds

\* Longest file (in data rows) the model reads.
MaxRows == 2

\* ------------------------------------------------------------ data domain

\* Column names of merged_data.csv that the script refers to.
Columns ==
  {"year", "genre_full", "weeks_on_chart", "mood_happy", "gender",
   "peak_position", "bpm", "loudness", "song", "artist"}

\* Values that occur in the files of the model.  GenreValues is in
\* lexicographic order, the order a sorted group-by emits its keys in.
YearValues == {1969, 1990, 2019}
GenreValues == <<"Pop", "Rock">>
WeekValues == {1, 3}
MoodValues == {"happy", "sad"}
GenderValues == {"female", "male"}

Range(s) == {s[i] : i \in DOMAIN s}

\* Sequences over S of length at most n.
SeqsUpTo(S, n) == UNION {[1..k -> S] : k \in 0..n}

\* One line of the file, before it has an index label.
MakeLine(y, g, w, m, s) ==
  [year |-> y, genre_full |-> g, weeks_on_chart |-> w, mood_happy |-> m,
   gender |-> s]

\* ------------------------------------------------------------ float values

NaN == [nan |-> TRUE, num |-> 0, den |-> 0]
Frac(n, d) == [nan |-> FALSE, num |-> n, den |-> d]

\* Float division as the chart's expression language and numpy do it: a
\* zero divisor gives a non-finite value, never an exception.
Divide(n, d) == IF d = 0 THEN NaN ELSE Frac(n, d)

RECURSIVE SumSeq(_)
SumSeq(s) == IF s = <<>> THEN 0 ELSE Head(s) + SumSeq(Tail(s))

\* Series.mean(): the sum over the length; the mean of an empty series is NaN.
Mean(s) == Divide(SumSeq(s), Len(s))

\* format(v, ".1f"): "nan" for NaN, otherwise v rounded to one decimal
\* (ties to even, exact for the fractions the model's tables produce).
Format1f(v) ==
  IF v.nan THEN [nan |-> TRUE, tenths |-> 0]
  ELSE LET q == (10 * v.num) \div v.den
           r == (10 * v.num) % v.den
       IN [nan |-> FALSE,
           tenths |-> IF 2 * r < v.den THEN q
                      ELSE IF 2 * r > v.den THEN q + 1
                      ELSE IF q % 2 = 0 THEN q ELSE q + 1]

\* ------------------------------------------------------------ table helpers

\* The distinct values of s in order of first occurrence (Series.unique(),
\* and the group order of the chart's aggregate transform).
RECURSIVE Unique(_)
Unique(s) ==
  IF s = <<>> THEN <<>>
  ELSE <<Head(s)>> \o SelectSeq(Unique(Tail(s)), LAMBDA v : v # Head(s))

\* Position of v in the sequence s (0 when absent).
RECURSIVE IndexOf(_, _)
IndexOf(s, v) ==
  IF s = <<>> THEN 0
  ELSE IF Head(s) = v THEN 1
  ELSE LET k == IndexOf(Tail(s), v) IN IF k = 0 THEN 0 ELSE k + 1

GenreRank(g) == IndexOf(GenreValues, g)

\* The elements of the finite set S as a sequence ascending by rank, a
\* function from S to integers that is one-to-one.
RECURSIVE Sorted(_, _)
Sorted(S, rank) ==
  IF S = {} THEN <<>>
  ELSE LET m == CHOOSE x \in S : \A y \in S : rank[x] <= rank[y]
       IN <<m>> \o Sorted(S \ {m}, rank)

\* row[c] for the columns whose values the script computes with.
Field(row, c) ==
  CASE c = "year" -> row.year
    [] c = "genre_full" -> row.genre_full
    [] c = "weeks_on_chart" -> row.weeks_on_chart
    [] c = "mood_happy" -> row.mood_happy
    [] c = "gender" -> row.gender

\* table[c]: the column as a series aligned with the rows.
Column(rows, c) == [i \in DOMAIN rows |-> Field(rows[i], c)]

RECURSIVE MaxOf(_)
MaxOf(S) ==
  LET x == CHOOSE v \in S : TRUE
  IN IF S = {x} THEN x
     ELSE LET m == MaxOf(S \ {x}) IN IF x > m THEN x ELSE m

\* ------------------------------------------------------------ data loader

EmptyTable == [columns |-> {}, rows |-> <<>>]
EmptyCache == [state |-> "unloaded", value |-> EmptyTable]

\* pd.read_csv: the header gives the columns, the lines become rows labelled
\* 0, 1, 2, ... in file order.
read_csv(f) ==
  [columns |-> f.columns,
   rows |-> [i \in 1..Len(f.rows) |->
               [index |-> i - 1,
                year |-> f.rows[i].year,
                genre_full |-> f.rows[i].genre_full,
                weeks_on_chart |-> f.rows[i].weeks_on_chart,
                mood_happy |-> f.rows[i].mood_happy,
                gender |-> f.rows[i].gender]]]

\* The body of load_data without its decorator: reads the file on every call.
load_data_uncached(c, f) ==
  LET t == read_csv(f)
  IN [value |-> t, cache |-> [state |-> "loaded", value |-> t], read |-> TRUE]

\* load_data under st.cache_data (no arguments, so one cache entry): the
\* first call reads the file and stores the table, later calls return the
\* stored table.
load_data(c, f) ==
  IF c.state = "loaded"
  THEN [value |-> c.value, cache |-> c, read |-> FALSE]
  ELSE LET t == read_csv(f)
       IN [value |-> t, cache |-> [state |-> "loaded", value |-> t],
           read |-> TRUE]

\* ------------------------------------------------------------ filter engine

\* Series.isin(values)
isin(series, values) == [i \in DOMAIN series |-> series[i] \in values]

SeriesLe(series, v) == [i \in DOMAIN series |-> series[i] <= v]

\* series >= v
SeriesGe(series, v) == [i \in DOMAIN series |-> series[i] >= v]

MaskOr(a, b) == [i \in DOMAIN a |-> a[i] \/ b[i]]

\* a & b on boolean series
MaskAnd(a, b) == [i \in DOMAIN a |-> a[i] /\ b[i]]

RECURSIVE TakeFrom(_, _, _)
TakeFrom(rows, mask, i) ==
  IF i > Len(rows) THEN <<>>
  ELSE (IF mask[i] THEN <<rows[i]>> ELSE <<>>) \o TakeFrom(rows, mask, i + 1)

RECURSIVE TakeBack(_, _, _)
TakeBack(rows, mask, i) ==
  IF i < 1 THEN <<>>
  ELSE (IF mask[i] THEN <<rows[i]>> ELSE <<>>) \o TakeBack(rows, mask, i - 1)

BooleanIndexReversed(t, mask) ==
  [columns |-> t.columns, rows |-> TakeBack(t.rows, mask, Len(t.rows))]

\* table[mask]: a new table of the rows whose mask entry is true, in the
\* table's order, each keeping its index label.
BooleanIndex(t, mask) ==
  [columns |-> t.columns, rows |-> TakeFrom(t.rows, mask, 1)]

\* The filter expression of the script.
Filter(t, years, genres, weeks) ==
  BooleanIndex(t,
    MaskAnd(MaskAnd(isin(Column(t.rows, "year"), years),
                    isin(Column(t.rows, "genre_full"), genres)),
            SeriesGe(Column(t.rows, "weeks_on_chart"), weeks)))

\* ------------------------------------------------------------ aggregations

\* transform_aggregate(count='count()', groupby=['year', inner]): one row
\* per (year, inner) pair among the rows, in order of first occurrence, with
\* the number of rows of the pair.
transform_aggregate(rows, inner) ==
  LET pair(i) == <<rows[i].year, Field(rows[i], inner)>>
      keys == Unique([i \in DOMAIN rows |-> pair(i)])
  IN [j \in DOMAIN keys |->
        [year |-> keys[j][1], inner |-> keys[j][2],
         count |-> Cardinality({i \in DOMAIN rows : pair(i) = keys[j]})]]

transform_joinaggregate_all(agg) ==
  [j \in DOMAIN agg |->
     [year |-> agg[j].year, inner |-> agg[j].inner, count |-> agg[j].count,
      total |-> SumSeq([k \in DOMAIN agg |-> agg[k].count])]]

\* transform_joinaggregate(total='sum(count)', groupby=['year']): every row
\* gets the sum of the counts of the rows of its year.
transform_joinaggregate(agg) ==
  [j \in DOMAIN agg |->
     LET same == SelectSeq(agg, LAMBDA r : r.year = agg[j].year)
     IN [year |-> agg[j].year, inner |-> agg[j].inner, count |-> agg[j].count,
         total |-> SumSeq([k \in DOMAIN same |-> same[k].count])]]

\* transform_calculate(proportion='datum.count / datum.total')
transform_calculate(agg) ==
  [j \in DOMAIN agg |->
     [year |-> agg[j].year, inner |-> agg[j].inner, count |-> agg[j].count,
      total |-> agg[j].total,
      proportion |-> Divide(agg[j].count, agg[j].total)]]

\* The three transforms of genre_chart (inner = "genre_full") and of
\* gender_prop (inner = "gender"), applied to the filtered rows.
ProportionByYear(rows, inner) ==
  transform_calculate(transform_joinaggregate(transform_aggregate(rows, inner)))

\* The group key of a row: its values in the key columns.
KeyOf(row, keys) == [k \in DOMAIN keys |-> Field(row, keys[k])]

ValueRank(c, v) == IF c = "genre_full" THEN GenreRank(v) ELSE v

\* Sort rank of a group key: lexicographic over the key columns.
KeyRank(key, keys) ==
  IF Len(keys) = 1 THEN ValueRank(keys[1], key[1])
  ELSE ValueRank(keys[1], key[1]) * 10000 + ValueRank(keys[2], key[2])

\* A group-by that emits every combination of the observed key values.
GroupKeysZeroFill(rows, keys) ==
  LET levels(k) == {Field(r, keys[k]) : r \in Range(rows)}
      all == IF Len(keys) = 1 THEN {<<a>> : a \in levels(1)}
             ELSE {<<a, b>> : a \in levels(1), b \in levels(2)}
  IN Sorted(all, [key \in all |-> KeyRank(key, keys)])

\* DataFrame.groupby(keys): the keys that occur among the rows, sorted.
GroupKeys(rows, keys) ==
  LET occurring == {KeyOf(r, keys) : r \in Range(rows)}
  IN Sorted(occurring, [key \in occurring |-> KeyRank(key, keys)])

HappySum(x) == Frac(SumSeq([i \in DOMAIN x |-> IF x[i] = "happy" THEN 1 ELSE 0]), 1)

\* lambda x: (x == 'happy').mean()
HappyMean(x) == Mean([i \in DOMAIN x |-> IF x[i] = "happy" THEN 1 ELSE 0])

\* groupby(keys)['mood_happy'].apply(...).reset_index(name='proportion_happy'):
\* one row per group with the key and the value of the lambda on the
\* group's mood_happy series.
HappyByGroup(rows, keys) ==
  LET gk == GroupKeys(rows, keys)
  IN [j \in DOMAIN gk |->
        [key |-> gk[j],
         proportion_happy |->
           HappyMean(Column(SelectSeq(rows, LAMBDA r : KeyOf(r, keys) = gk[j]),
                            "mood_happy"))]]

\* ------------------------------------------------------------ chart specs

\* A channel of an encoding.  type is "" when the shorthand names a field
\* without a ":type" suffix; the chart library then takes the type from the
\* column of that name in the chart's data frame.
Channel(ch, f, ty) == [channel |-> ch, field |-> f, type |-> ty]

\* The type taken from a column of merged_data.csv.
InferType(f) ==
  IF f \in {"year", "weeks_on_chart", "peak_position", "bpm", "loudness"}
  THEN "Q" ELSE "N"

\* Encoding of gender_prop.
GenderPropEncoding ==
  <<Channel("x", "year", "O"), Channel("y", "proportion", "Q"),
    Channel("color", "gender", "N"), Channel("tooltip", "year", ""),
    Channel("tooltip", "gender", ""), Channel("tooltip", "proportion", "Q")>>

CustomEncodingTypedAxes(xa, ya, hv, fy) ==
  <<Channel("x", xa, "Q"), Channel("y", ya, "Q"),
    Channel("color", hv, "N"), Channel("tooltip", "genre_full", ""),
    Channel("tooltip", "year", "")>>
  \o (IF fy THEN <<Channel("column", "year", "N")>> ELSE <<>>)

\* Encoding of the custom chart of tab4, with the facet when filter_year.
CustomEncoding(xa, ya, hv, fy) ==
  <<Channel("x", xa, ""), Channel("y", ya, ""), Channel("color", hv, "N"),
    Channel("tooltip", xa, ""), Channel("tooltip", ya, ""),
    Channel("tooltip", "song", ""), Channel("tooltip", "artist", ""),
    Channel("tooltip", "genre_full", ""), Channel("tooltip", "year", "")>>
  \o (IF fy THEN <<Channel("column", "year", "N")>> ELSE <<>>)

\* A shorthand without a type that names no column of the data frame: the
\* chart cannot be turned into a spec and st.altair_chart raises.
CannotInfer(columns, enc) ==
  \E i \in DOMAIN enc : enc[i].type = "" /\ enc[i].field \notin columns

NoSpec == [mark |-> "none", encoding |-> <<>>]

\* The spec handed to the front end: every channel with its type.
to_dict(mark, enc) ==
  [mark |-> mark,
   encoding |-> [i \in DOMAIN enc |->
                   Channel(enc[i].channel, enc[i].field,
                           IF enc[i].type = "" THEN InferType(enc[i].field)
                           ELSE enc[i].type)]]

\* ------------------------------------------------------------ the script

\* Year options taken from the years of the data instead of the fixed list.
YearOptionsFromData == {1969, 1990, 2019}

\* Options of the widgets that do not depend on the data.
YearOptions == {1969, 2019}
MoodViews == <<"Year Comparison", "Genre Breakdown">>
XOptions == <<"peak_position", "weeks_on_chart", "bpm">>
HueOptions == <<"mood_happy", "gender", "year">>
YOptions == <<"weeks_on_chart", "peak_position", "loudness">>

\* What a run leaves for a statement it did not reach.
NoFail == [line |-> 0, exc |-> "none"]
Raise(l, e) == [line |-> l, exc |-> e]

\* The statement at which a run of the script over table t stops, with the
\* exception raised there, or NoFail when it runs to the end: indexing a
\* missing column raises KeyError, int() of the maximum of an empty column
\* raises ValueError, and so does a chart whose type cannot be inferred.
ScriptFail(t, mv, xa, ya, hv, fy) ==
  IF "genre_full" \notin t.columns THEN Raise(23, "KeyError")
  ELSE IF "weeks_on_chart" \notin t.columns THEN Raise(30, "KeyError")
  ELSE IF t.rows = <<>> THEN Raise(30, "ValueError")
  ELSE IF "year" \notin t.columns THEN Raise(36, "KeyError")
  ELSE IF "mood_happy" \notin t.columns
       THEN Raise(IF mv = MoodViews[1] THEN 101 ELSE 123, "KeyError")
  ELSE IF CannotInfer(t.columns, GenderPropEncoding) THEN Raise(179, "ValueError")
  ELSE IF CannotInfer(t.columns, CustomEncoding(xa, ya, hv, fy))
       THEN Raise(229, "ValueError")
  ELSE NoFail

\* One run of the script over table t.  w, go and wmx are the session's
\* widgets before the run (the widgets that exist, and the options two of
\* them were created with), v the values the session holds for them.  A
\* widget returns its session value when it exists with the same options
\* and its default otherwise.  The result gives every name the script binds;
\* names of statements the run did not reach keep an empty value.
Script(t, w, go, wmx, v) ==
  LET years == IF "years" \in w THEN v.years ELSE YearOptions
      opts == Unique(Column(t.rows, "genre_full"))
      genres == IF "genres" \in w /\ go = opts THEN v.genres ELSE Range(opts)
      top == MaxOf(Range(Column(t.rows, "weeks_on_chart")))
      weeks == IF "min_weeks" \in w /\ wmx = top THEN v.min_weeks ELSE 0
      mv == IF "mood_view" \in w THEN v.mood_view ELSE MoodViews[1]
      xa == IF "x_axis" \in w THEN v.x_axis ELSE XOptions[1]
      hv == IF "hue_var" \in w THEN v.hue_var ELSE HueOptions[1]
      ya == IF "y_axis" \in w THEN v.y_axis ELSE YOptions[1]
      fy == IF "filter_year" \in w THEN v.filter_year ELSE FALSE
      fail == ScriptFail(t, mv, xa, ya, hv, fy)
      ran(l) == fail.line = 0 \/ l < fail.line
      filtered == Filter(t, years, genres, weeks)
      avg == Mean(Column(filtered.rows, "weeks_on_chart"))
  IN [exception |-> fail,
      widgets |-> {"years"}
                  \cup (IF ran(23) THEN {"genres"} ELSE {})
                  \cup (IF ran(30) THEN {"min_weeks"} ELSE {})
                  \cup (IF ran(91) THEN {"mood_view"} ELSE {})
                  \cup (IF ran(203)
                        THEN {"x_axis", "hue_var", "y_axis", "filter_year"}
                        ELSE {}),
      selected_years |-> years,
      genre_options |-> IF ran(23) THEN opts ELSE <<>>,
      selected_genres |-> IF ran(23) THEN genres ELSE {},
      weeks_max |-> IF ran(30) THEN top ELSE 0,
      min_weeks |-> IF ran(30) THEN weeks ELSE 0,
      filtered_data |-> IF ran(36) THEN filtered ELSE EmptyTable,
      total_songs |-> IF ran(55) THEN Len(filtered.rows) ELSE 0,
      avg_weeks |-> IF ran(57) THEN avg ELSE NaN,
      avg_label |-> IF ran(58) THEN Format1f(avg) ELSE Format1f(NaN),
      genre_chart |-> IF ran(86) THEN ProportionByYear(filtered.rows, "genre_full")
                      ELSE <<>>,
      mood_view |-> mv,
      year_stats |-> IF ran(101) /\ mv = MoodViews[1]
                     THEN HappyByGroup(filtered.rows, <<"year">>) ELSE <<>>,
      genre_stats |-> IF ran(123) /\ mv = MoodViews[2]
                      THEN HappyByGroup(filtered.rows, <<"genre_full", "year">>)
                      ELSE <<>>,
      gender_prop |-> IF ran(179) THEN ProportionByYear(filtered.rows, "gender")
                      ELSE <<>>,
      x_axis |-> xa, hue_var |-> hv, y_axis |-> ya, filter_year |-> fy,
      chart |-> IF ran(229) THEN to_dict("circle", CustomEncoding(xa, ya, hv, fy))
                ELSE NoSpec,
      rendered |-> (IF ran(86) THEN {"genre_chart"} ELSE {})
                   \cup (IF ran(155) THEN {"mood_chart"} ELSE {})
                   \cup (IF ran(179) THEN {"gender_prop"} ELSE {})
                   \cup (IF ran(192) THEN {"gender_weeks"} ELSE {})
                   \cup (IF ran(229) THEN {"chart"} ELSE {})]

\* ------------------------------------------------------------ state

VARIABLES
  file,             \* merged_data.csv on disk: [columns, rows]
  cache,            \* the st.cache_data entry of load_data
  reads,            \* how often the file has been read (counted up to ReadCap)
  first_table,      \* the table the first read produced
  session,          \* "new" before the first run of the script, then "active"
  widgets,          \* the widgets the last run created
  genre_options,    \* options of the genre multiselect in the last run
  weeks_max,        \* max_value of the slider in the last run
  merged_data, selected_years, selected_genres, min_weeks, filtered_data,
  total_songs, avg_weeks, avg_label, genre_chart, mood_view, year_stats,
  genre_stats, gender_prop, x_axis, hue_var, y_axis, filter_year, chart,
  exception,        \* where and how the last run stopped, or NoFail
  rendered          \* the charts the last run handed to st.altair_chart

vars ==
  <<file, cache, reads, first_table, session, widgets, genre_options,
    weeks_max, merged_data, selected_years, selected_genres, min_weeks,
    filtered_data, total_songs, avg_weeks, avg_label, genre_chart, mood_view,
    year_stats, genre_stats, gender_prop, x_axis, hue_var, y_axis,
    filter_year, chart, exception, rendered>>

\* The read counter stops counting here.
ReadCap == 2

\* Files of the model: every column present, lines drawn from `lines`.
FilesOver(lines) ==
  {[columns |-> Columns, rows |-> r] : r \in SeqsUpTo(lines, MaxRows)}

\* Lines that differ in the columns the filter reads.
FilterLines ==
  {MakeLine(y, g, w, "happy", "female") :
     y \in YearValues, g \in Range(GenreValues), w \in WeekValues}

\* Lines that differ in the columns the summary tables group and count by.
AggLines ==
  {MakeLine(y, g, 1, m, s) :
     y \in {1969, 2019}, g \in Range(GenreValues), m \in MoodValues,
     s \in GenderValues}

\* Lines of the files the environment swaps in and out.
SampleLines ==
  {MakeLine(1969, "Rock", 3, "happy", "male"),
   MakeLine(2019, "Pop", 1, "sad", "female")}

\* Files with the two sample lines and any subset of the columns.
SchemaFiles ==
  {[columns |-> c,
    rows |-> <<MakeLine(1969, "Rock", 3, "happy", "male"),
               MakeLine(2019, "Pop", 1, "sad", "female")>>] :
     c \in SUBSET Columns}

\* The process has started and no session has run the script yet.
InitWith(files) ==
  /\ file \in files
  /\ cache = EmptyCache
  /\ reads = 0
  /\ first_table = EmptyTable
  /\ session = "new"
  /\ widgets = {}
  /\ genre_options = <<>>
  /\ weeks_max = 0
  /\ merged_data = EmptyTable
  /\ selected_years = {}
  /\ selected_genres = {}
  /\ min_weeks = 0
  /\ filtered_data = EmptyTable
  /\ total_songs = 0
  /\ avg_weeks = NaN
  /\ avg_label = Format1f(NaN)
  /\ genre_chart = <<>>
  /\ mood_view = MoodViews[1]
  /\ year_stats = <<>>
  /\ genre_stats = <<>>
  /\ gender_prop = <<>>
  /\ x_axis = XOptions[1]
  /\ hue_var = HueOptions[1]
  /\ y_axis = YOptions[1]
  /\ filter_year = FALSE
  /\ chart = NoSpec
  /\ exception = NoFail
  /\ rendered = {}

\* The widget values the session holds.
Held ==
  [years |-> selected_years, genres |-> selected_genres,
   min_weeks |-> min_weeks, mood_view |-> mood_view, x_axis |-> x_axis,
   hue_var |-> hue_var, y_axis |-> y_axis, filter_year |-> filter_year]

\* One execution of the script, top to bottom, with the session holding v.
Run(v) ==
  \E ld \in {load_data(cache, file)} :
  \E out \in {Script(ld.value, widgets, genre_options, weeks_max, v)} :
     /\ cache' = ld.cache
     /\ reads' = IF ld.read /\ reads < ReadCap THEN reads + 1 ELSE reads
     /\ first_table' = IF ld.read /\ reads = 0 THEN ld.value ELSE first_table
     /\ merged_data' = ld.value
     /\ widgets' = out.widgets
     /\ genre_options' = out.genre_options
     /\ weeks_max' = out.weeks_max
     /\ selected_years' = out.selected_years
     /\ selected_genres' = out.selected_genres
     /\ min_weeks' = out.min_weeks
     /\ filtered_data' = out.filtered_data
     /\ total_songs' = out.total_songs
     /\ avg_weeks' = out.avg_weeks
     /\ avg_label' = out.avg_label
     /\ genre_chart' = out.genre_chart
     /\ mood_view' = out.mood_view
     /\ year_stats' = out.year_stats
     /\ genre_stats' = out.genre_stats
     /\ gender_prop' = out.gender_prop
     /\ x_axis' = out.x_axis
     /\ hue_var' = out.hue_var
     /\ y_axis' = out.y_axis
     /\ filter_year' = out.filter_year
     /\ chart' = out.chart
     /\ exception' = out.exception
     /\ rendered' = out.rendered
     /\ file' = file

\* A browser opens the page: the first run, every widget at its default.
FirstRender ==
  /\ session = "new"
  /\ session' = "active"
  /\ Run(Held)

\* The user asks for a rerun without touching a widget.
Rerun ==
  /\ session = "active"
  /\ Run(Held)
  /\ UNCHANGED session

\* The user changes one widget; the script runs again with the new value.
ChangeYears(ys) ==
  /\ session = "active" /\ "years" \in widgets
  /\ ys # selected_years
  /\ Run([Held EXCEPT !.years = ys])
  /\ UNCHANGED session

ChangeGenres(gs) ==
  /\ session = "active" /\ "genres" \in widgets
  /\ gs # selected_genres
  /\ Run([Held EXCEPT !.genres = gs])
  /\ UNCHANGED session

ChangeMinWeeks(m) ==
  /\ session = "active" /\ "min_weeks" \in widgets
  /\ m # min_weeks
  /\ Run([Held EXCEPT !.min_weeks = m])
  /\ UNCHANGED session

ChangeMoodView(mv) ==
  /\ session = "active" /\ "mood_view" \in widgets
  /\ mv # mood_view
  /\ Run([Held EXCEPT !.mood_view = mv])
  /\ UNCHANGED session

ChangeXAxis(xa) ==
  /\ session = "active" /\ "x_axis" \in widgets
  /\ xa # x_axis
  /\ Run([Held EXCEPT !.x_axis = xa])
  /\ UNCHANGED session

ChangeHue(hv) ==
  /\ session = "active" /\ "hue_var" \in widgets
  /\ hv # hue_var
  /\ Run([Held EXCEPT !.hue_var = hv])
  /\ UNCHANGED session

ChangeYAxis(ya) ==
  /\ session = "active" /\ "y_axis" \in widgets
  /\ ya # y_axis
  /\ Run([Held EXCEPT !.y_axis = ya])
  /\ UNCHANGED session

ToggleSplit ==
  /\ session = "active" /\ "filter_year" \in widgets
  /\ Run([Held EXCEPT !.filter_year = ~filter_year])
  /\ UNCHANGED session

\* Outside the program: the file on disk is replaced while the app runs.
RewriteFile(f) ==
  /\ f # file
  /\ file' = f
  /\ UNCHANGED <<cache, reads, first_table, session, widgets, genre_options,
                 weeks_max, merged_data, selected_years, selected_genres,
                 min_weeks, filtered_data, total_songs, avg_weeks, avg_label,
                 genre_chart, mood_view, year_stats, genre_stats, gender_prop,
                 x_axis, hue_var, y_axis, filter_year, chart, exception,
                 rendered>>

\* The sidebar: the three global filters.
Sidebar ==
  \/ \E ys \in SUBSET YearOptions : ChangeYears(ys)
  \/ \E gs \in SUBSET Range(genre_options) : ChangeGenres(gs)
  \/ \E m \in 0..weeks_max : ChangeMinWeeks(m)

\* ------------------------------------------------------------ specifications

\* The loader: sessions rerun and filter while the file on disk changes.
InitLoader == InitWith(FilesOver(SampleLines))
NextLoader ==
  \/ FirstRender
  \/ Rerun
  \/ Sidebar
  \/ \E f \in FilesOver(SampleLines) : RewriteFile(f)
SpecLoader == InitLoader /\ [][NextLoader]_vars

\* The filter engine: every file over FilterLines, every sidebar selection.
InitFilter == InitWith(FilesOver(FilterLines))
NextFilter ==
  \/ FirstRender
  \/ Sidebar
SpecFilter == InitFilter /\ [][NextFilter]_vars

\* The aggregations: every file over AggLines, the selections that change
\* the groups, both views of the mood tab.
InitAgg == InitWith(FilesOver(AggLines))
NextAgg ==
  \/ FirstRender
  \/ \E ys \in SUBSET YearOptions : ChangeYears(ys)
  \/ \E gs \in SUBSET Range(genre_options) : ChangeGenres(gs)
  \/ \E mv \in Range(MoodViews) : ChangeMoodView(mv)
SpecAgg == InitAgg /\ [][NextAgg]_vars

\* The charts: files with any subset of the columns, every choice of the
\* widgets of the mood and custom tabs.
InitChart == InitWith(SchemaFiles)
NextChart ==
  \/ FirstRender
  \/ \E mv \in Range(MoodViews) : ChangeMoodView(mv)
  \/ \E xa \in Range(XOptions) : ChangeXAxis(xa)
  \/ \E hv \in Range(HueOptions) : ChangeHue(hv)
  \/ \E ya \in Range(YOptions) : ChangeYAxis(ya)
  \/ ToggleSplit
SpecChart == InitChart /\ [][NextChart]_vars

\* ------------------------------------------------------------ properties

\* The last run of the script completed the statement at line l.
Reached(l) ==
  session = "active" /\ (exception.line = 0 \/ l < exception.line)

\* The row satisfies the three predicates of the current selection.
Matches(row) ==
  /\ row.year \in selected_years
  /\ row.genre_full \in selected_genres
  /\ row.weeks_on_chart >= min_weeks

\* C1: the filtered table holds exactly the dataset rows whose year is among
\* the selected years, whose genre is among the selected genres and whose
\* weeks on chart are at least min_weeks: no other row is in it and no such
\* row is missing from it.
FilterExact ==
  Reached(36) =>
    /\ \A r \in Range(filtered_data.rows) :
         r \in Range(merged_data.rows) /\ Matches(r)
    /\ \A r \in Range(merged_data.rows) :
         Matches(r) => r \in Range(filtered_data.rows)

\* C1 witness: a selection that keeps one row of the dataset and drops
\* another by the weeks threshold alone.
FilterExactWitness ==
  /\ Reached(36)
  /\ min_weeks > 0
  /\ selected_years = {1969, 2019}
  /\ filtered_data.rows # <<>>
  /\ \E r \in Range(merged_data.rows) :
       /\ r.year \in selected_years /\ r.genre_full \in selected_genres
       /\ r.weeks_on_chart < min_weeks

\* C3: when the filtered table is empty the average weeks-on-chart metric is
\* shown as "no data", never as the text of a NaN.
EmptyAverageIsNoData ==
  (Reached(58) /\ filtered_data.rows = <<>>) => ~avg_label.nan

\* C5: the filtered table of the current selection is contained in the
\* filtered table of every selection of the widgets with at least the same
\* years, at least the same genres and a threshold that is not higher.
FilterMonotonic ==
  Reached(36) =>
    \A ys \in SUBSET {1969, 2019}, gs \in SUBSET Range(genre_options),
       m \in 0..weeks_max :
      (selected_years \subseteq ys /\ selected_genres \subseteq gs /\ m <= min_weeks)
        => Range(filtered_data.rows)
             \subseteq Range(Filter(merged_data, ys, gs, m).rows)

\* C5 witness: a narrow selection that keeps a row while the widest
\* selection keeps strictly more rows.
FilterMonotonicWitness ==
  /\ Reached(36)
  /\ min_weeks > 0
  /\ selected_years # {1969, 2019}
  /\ filtered_data.rows # <<>>
  /\ Len(filtered_data.rows)
       < Len(Filter(merged_data, {1969, 2019}, Range(genre_options), 0).rows)

\* C7: the filtered table is a subsequence of the dataset: every row it
\* holds is the dataset row of the same index label, unaltered, the labels
\* ascend strictly (dataset order, no row twice), and the dataset is still
\* the table that was read from the file.
FilteredIsSubsequence ==
  Reached(36) =>
    /\ \A i \in DOMAIN filtered_data.rows :
         /\ filtered_data.rows[i].index \in 0..(Len(merged_data.rows) - 1)
         /\ filtered_data.rows[i]
              = merged_data.rows[filtered_data.rows[i].index + 1]
    /\ \A i, j \in DOMAIN filtered_data.rows :
         i < j => filtered_data.rows[i].index < filtered_data.rows[j].index
    /\ filtered_data.columns = merged_data.columns
    /\ merged_data = read_csv(file)
    /\ cache.value = merged_data

\* C7 witness: a filtered table of two rows under a selection that is not
\* the default one.
FilteredIsSubsequenceWitness ==
  /\ Reached(36)
  /\ Len(filtered_data.rows) >= 2
  /\ filtered_data.rows[1].weeks_on_chart # filtered_data.rows[2].weeks_on_chart
  /\ min_weeks > 0

\* C10: the selected years are always among 1969 and 2019, whatever years
\* the dataset holds, so every row of the filtered table and every row of a
\* summary table has year 1969 or 2019.
YearsWithinConfigured ==
  session = "active" =>
    /\ selected_years \subseteq {1969, 2019}
    /\ \A r \in Range(filtered_data.rows) : r.year \in {1969, 2019}
    /\ \A r \in Range(genre_chart) \cup Range(gender_prop) :
         r.year \in {1969, 2019}
    /\ \A r \in Range(year_stats) : r.key[1] \in {1969, 2019}

\* C10 witness: the dataset holds a row of 1990 and a row of a configured
\* year, everything the widgets offer is selected, and only the latter row
\* is in the filtered table.
YearsWithinConfiguredWitness ==
  /\ Reached(229)
  /\ \E r \in Range(merged_data.rows) : r.year = 1990
  /\ selected_years = {1969, 2019}
  /\ selected_genres = Range(genre_options)
  /\ min_weeks = 0
  /\ Len(filtered_data.rows) = 1
  /\ Len(year_stats) = 1

\* C2: the file is read at most once: the loader is loaded exactly when
\* that one read has happened, it stays loaded in every run of a session,
\* and every run works on the table of the first read, whatever has become
\* of the file since.
LoadedOnce ==
  /\ reads <= 1
  /\ (cache.state = "loaded") = (reads = 1)
  /\ session = "active" =>
       /\ cache.state = "loaded"
       /\ merged_data = first_table
       /\ cache.value = first_table

\* C2 witness: a session changed its selection and holds a table that is no
\* longer what the file on disk would give.
LoadedOnceWitness ==
  /\ session = "active"
  /\ reads = 1
  /\ read_csv(file) # merged_data
  /\ merged_data.rows # <<>>
  /\ selected_years = {2019}
  /\ min_weeks > 0

\* Exact sum of a sequence of fractions, as a fraction.
RECURSIVE FracSum(_)
FracSum(s) ==
  IF s = <<>> THEN Frac(0, 1)
  ELSE LET h == Head(s)
           t == FracSum(Tail(s))
       IN IF h.nan \/ t.nan THEN NaN
          ELSE Frac(h.num * t.den + t.num * h.den, h.den * t.den)

\* Number of filtered rows of year y, and of those with value v in column c.
RowsOfYear(y) ==
  Cardinality({i \in DOMAIN filtered_data.rows : filtered_data.rows[i].year = y})
RowsOfPair(y, c, v) ==
  Cardinality({i \in DOMAIN filtered_data.rows :
                 /\ filtered_data.rows[i].year = y
                 /\ Field(filtered_data.rows[i], c) = v})

\* The rows of a proportion table sum to 1 within every year of the
\* filtered table, each being the count of its (year, inner) pair over the
\* row count of its year.
SharesSumToOne(tab, inner) ==
  \A y \in {r.year : r \in Range(filtered_data.rows)} :
    LET grp == SelectSeq(tab, LAMBDA r : r.year = y)
        sum == FracSum([k \in DOMAIN grp |-> grp[k].proportion])
    IN /\ grp # <<>>
       /\ ~sum.nan /\ sum.den # 0 /\ sum.num = sum.den
       /\ SumSeq([k \in DOMAIN grp |-> grp[k].count]) = RowsOfYear(y)
       /\ \A k \in DOMAIN grp :
            /\ grp[k].total = RowsOfYear(y)
            /\ grp[k].proportion
                 = Frac(RowsOfPair(y, inner, grp[k].inner), RowsOfYear(y))

\* C6: in the genre-by-year and the gender-by-year tables the proportions
\* of the rows of one year sum to 1, for every year of the filtered table:
\* each is its group's count over the row count of the year, and the counts
\* of a year add up to that row count.
ProportionsSumToOne ==
  /\ Reached(86) => SharesSumToOne(genre_chart, "genre_full")
  /\ Reached(179) => SharesSumToOne(gender_prop, "gender")

\* C6 witness: a year of the filtered table whose rows fall into two
\* genres, each with half of the year's rows.
ProportionsSumToOneWitness ==
  /\ Reached(179)
  /\ \E i, j \in DOMAIN genre_chart :
       /\ genre_chart[i].year = genre_chart[j].year
       /\ genre_chart[i].inner # genre_chart[j].inner
       /\ genre_chart[i].proportion = Frac(1, 2)

\* The filtered rows of the group with the given key.
GroupOf(key, keys) ==
  {i \in DOMAIN filtered_data.rows : KeyOf(filtered_data.rows[i], keys) = key}

\* Every value of a happy-proportion table is the number of "happy" rows of
\* its group over the number of rows of the group, and lies in [0, 1].
HappyShareCorrect(tab, keys) ==
  \A j \in DOMAIN tab :
    LET grp == GroupOf(tab[j].key, keys)
        happy == {i \in grp : filtered_data.rows[i].mood_happy = "happy"}
        v == tab[j].proportion_happy
    IN /\ ~v.nan /\ v.den > 0
       /\ v.num * Cardinality(grp) = Cardinality(happy) * v.den
       /\ 0 <= v.num /\ v.num <= v.den

\* C8: every value of the happy-proportion tables, by year and by (genre,
\* year), is count(rows of the group with mood_happy = "happy") over
\* count(rows of the group), and lies between 0 and 1.
HappyProportionCorrect ==
  /\ (Reached(101) /\ mood_view = "Year Comparison")
       => HappyShareCorrect(year_stats, <<"year">>)
  /\ (Reached(123) /\ mood_view = "Genre Breakdown")
       => HappyShareCorrect(genre_stats, <<"genre_full", "year">>)

\* C8 witness: a (genre, year) group of two rows, one of them happy.
HappyProportionCorrectWitness ==
  /\ Reached(123) /\ mood_view = "Genre Breakdown"
  /\ \E j \in DOMAIN genre_stats : genre_stats[j].proportion_happy = Frac(1, 2)

\* The table has one row per key of `expected` and no other row.
OneRowPerGroup(tabkeys, expected) ==
  /\ Range(tabkeys) = expected
  /\ Len(tabkeys) = Cardinality(expected)

\* C9: every summary table has exactly one row per group-key combination
\* that occurs in the filtered table and none for any other combination,
\* and every denominator of a proportion or mean is a positive row count,
\* also when the filtered table is empty.
GroupsExactlyThoseOccurring ==
  /\ Reached(86) =>
       /\ OneRowPerGroup(
            [j \in DOMAIN genre_chart |-> <<genre_chart[j].year, genre_chart[j].inner>>],
            {<<r.year, r.genre_full>> : r \in Range(filtered_data.rows)})
       /\ \A r \in Range(genre_chart) :
            r.total > 0 /\ ~r.proportion.nan /\ r.proportion.den > 0
  /\ Reached(179) =>
       /\ OneRowPerGroup(
            [j \in DOMAIN gender_prop |-> <<gender_prop[j].year, gender_prop[j].inner>>],
            {<<r.year, r.gender>> : r \in Range(filtered_data.rows)})
       /\ \A r \in Range(gender_prop) :
            r.total > 0 /\ ~r.proportion.nan /\ r.proportion.den > 0
  /\ (Reached(101) /\ mood_view = "Year Comparison") =>
       /\ OneRowPerGroup(
            [j \in DOMAIN year_stats |-> year_stats[j].key],
            {<<r.year>> : r \in Range(filtered_data.rows)})
       /\ \A r \in Range(year_stats) :
            ~r.proportion_happy.nan /\ r.proportion_happy.den > 0
  /\ (Reached(123) /\ mood_view = "Genre Breakdown") =>
       /\ OneRowPerGroup(
            [j \in DOMAIN genre_stats |-> genre_stats[j].key],
            {<<r.genre_full, r.year>> : r \in Range(filtered_data.rows)})
       /\ \A r \in Range(genre_stats) :
            ~r.proportion_happy.nan /\ r.proportion_happy.den > 0

\* C9 witness: the filtered table holds two genres and two years but only
\* two of the four (genre, year) combinations, and genre_stats has two rows.
GroupsExactlyThoseOccurringWitness ==
  /\ Reached(229) /\ mood_view = "Genre Breakdown"
  /\ Len(genre_stats) = 2
  /\ genre_stats[1].key[1] # genre_stats[2].key[1]
  /\ genre_stats[1].key[2] # genre_stats[2].key[2]

\* The fields the custom chart names under the current widget values.
CustomFields == {x_axis, y_axis, hue_var, "song", "artist", "genre_full", "year"}

\* C4: the custom chart is handed over as a spec only when every field its
\* encoding names (x, y, color, facet, tooltips) is a column of the table it
\* is built on; when one of them is not, the run ends in an exception and
\* no spec, whole or partial, is handed over.
SpecOnlyWithKnownFields ==
  session = "active" =>
    /\ "chart" \in rendered =>
         /\ chart # NoSpec
         /\ \A i \in DOMAIN chart.encoding :
              chart.encoding[i].field \in filtered_data.columns
    /\ ~(CustomFields \subseteq merged_data.columns) =>
         /\ "chart" \notin rendered
         /\ chart = NoSpec
         /\ exception.exc \in {"KeyError", "ValueError"}

\* C4 witness: the file has no bpm column, the user picked bpm for the
\* x axis, and the run stopped where the custom chart is handed over.
SpecOnlyWithKnownFieldsWitness ==
  /\ session = "active"
  /\ x_axis = "bpm" /\ "bpm" \notin merged_data.columns
  /\ exception = Raise(229, "ValueError")
  /\ "gender_weeks" \in rendered

====
